---- MODULE Spec2Model ----
(***************************************************************************)
(* Evidence-acquisition pipeline of tools/prediction_sum_url_content.py:   *)
(* fetch_additional_information (moderation, query planning, URL           *)
(* resolution), process_in_batches (windowed submission of GET requests to *)
(* a thread pool) and extract_texts (sequential draining of the futures,   *)
(* summarization, the success cap).                                        *)
(*                                                                         *)
(* One aggregating thread (pc) runs the pipeline; the pool's worker        *)
(* threads resolve the submitted requests at any moment, in any order.     *)
(* A task is identified by the position k of its URL in urls.              *)
(***************************************************************************)
EXTENDS Integers, Sequences, FiniteSets, TLC

\* ---------------------------------------------------------------- bounds
\* Longest URL list handed directly to extract_texts (specification SpecExtract).
MaxUrls == 4
\* Most queries the planning model returns.
MaxQueries == 2
\* Batch size of process_in_batches (parameter window, default 5 at line 316),
\* scaled down so that several windows fit in MaxUrls.
window == 2
\* Success cap of extract_texts (max_allowed, 45 at line 331), scaled down so
\* that the cap is reached within MaxUrls.
max_allowed == 2

\* Most sentences in a document text (specification SpecDoc).
MaxSents == 4
\* Number of sentences kept for the similarity computation (sentences[:300]),
\* scaled down below MaxSents.
sentence_cap == 3
\* Number of ranked sentences joined (relevant_sentences[:4]), scaled down
\* below sentence_cap.
top_sentences == 2
\* Word limit of get_website_summary (max_words, default 150), scaled down
\* below the length of top_sentences sentences.
max_words == 7

\* ------------------------------------------------------------- constants
\* Number of results requested from the search provider per query.
num == 3
\* Fewest whitespace-delimited tokens of a candidate sentence.
min_tokens == 5
\* Similarity threshold 0.7 and entity boost 0.05, in hundredths.
threshold == 70
boost == 5

\* HTTP status codes a response may carry: the accepted one, another 2xx,
\* a client error.
StatusCodes == {200, 204, 404}

\* The URLs the search provider knows. A URL is the sequence
\* <<name, last four characters>>.
URLS == {<<1, ".htm">>, <<2, ".pdf">>, <<3, ".PDF">>}

\* Exception classes that derive from Exception.
ExceptionClasses == {"ReadTimeout", "ConnectionError", "DocumentError", "SearchError"}

VARIABLES
    pc,               \* position of the aggregating thread
    moderation,       \* verdict of the moderation call on the planning prompt
    queries,          \* json_data["queries"]
    q,                \* number of queries already searched
    results,          \* results list of get_urls_from_queries (a local: empty
                      \* outside the call)
    calls,            \* calls made to the planning model and the search provider
    urls,             \* the URL list given to extract_texts
    i,                \* range variable of process_in_batches (next window start)
    batch,            \* positions of the window being drained
    fut,              \* state of the future of each position
    status_code,      \* status code of each resolved response (0: none)
    arrival,          \* positions of the current window in completion order
    drained,          \* positions whose future.result() has been consumed
    extracted_texts,  \* the digest
    count,            \* success counter
    stop,             \* cap flag
    summarized,       \* positions handed to extract_text
    docfail,          \* positions whose extract_text raised
    exc,              \* exception that left the pipeline ("none": none)
    additional_informations,
    soup,             \* the parsed markup of the document being summarized
    page,             \* its normalized text as analysed by nlp, and the prompt
    date,             \* result of get_date
    text_summary,     \* result of get_website_summary
    dpc               \* position inside extract_text

vars == <<pc, moderation, queries, q, results, calls, urls, i, batch, fut,
          status_code, arrival, drained, extracted_texts, count, stop,
          summarized, docfail, exc, additional_informations, soup, page, date,
          text_summary, dpc>>

plannerVars == <<moderation, queries, q, results, calls>>
poolVars == <<fut, status_code, arrival>>
loopVars == <<drained, extracted_texts, count, stop, summarized, docfail>>
docVars == <<soup, page, date, text_summary, dpc>>

\* ---------------------------------------------------------------- helpers
Min(a, b) == IF a < b THEN a ELSE b

Range(s) == {s[j] : j \in 1..Len(s)}

\* variant: the suffix is compared without regard to case
EndsWithPdfAnyCase(u) == u[Len(u)] \in {".pdf", ".PDF"}

\* url.endswith(".pdf")
EndsWithPdf(u) == u[Len(u)] = ".pdf"

NotPdf(u) == ~EndsWithPdf(u)

\* list(set(results)): the distinct elements, in any order
Orderings(S) ==
    {o \in [1..Cardinality(S) -> S] : \A a, b \in 1..Cardinality(S) : a # b => o[a] # o[b]}

\* what one search_google call may return: at most num links
Hits == UNION {[1..n -> URLS] : n \in 0..num}

\* "\n\n".join(["- " + text for text in texts])
RECURSIVE JoinBlocks(_)
JoinBlocks(texts) ==
    IF texts = <<>> THEN <<>>
    ELSE IF Len(texts) = 1 THEN <<"- ", texts[1]>>
    ELSE <<"- ", texts[1], "\n\n">> \o JoinBlocks(Tail(texts))

\* variant: every 2xx status is accepted
StatusOK2xx(s) == s \in 200..299

\* if result.status_code != 200: continue
StatusOK(s) == s = 200

\* variant: the comparison is strict
CapReachedStrict(c) == c > max_allowed

\* if count >= max_allowed
CapReached(c) == c >= max_allowed

\* variant: the generic handler is missing
CaughtOnlyReadTimeout(e) == e = "ReadTimeout"

\* except requests.exceptions.ReadTimeout / except Exception
Caught(e) == e = "ReadTimeout" \/ e \in ExceptionClasses

\* variant: the window is iterated backwards
AwaitableReversed(k) == k \in batch \ drained /\ \A j \in batch \ drained : k >= j

\* variant: the futures are consumed as they complete
AwaitableAny(k) == k \in batch \ drained

\* for future, url in batch: the futures are awaited in submission order
Awaitable(k) == k \in batch \ drained /\ \A j \in batch \ drained : k <= j

\* variant: shutdown(wait=False)
PoolNoWait == TRUE

\* ThreadPoolExecutor.__exit__: shutdown(wait=True) joins the workers
PoolQuiescent == \A k \in DOMAIN fut : fut[k] # "pending"

\* ------------------------------------------------------------------- Init
InitLoop ==
    /\ i = 0
    /\ batch = {}
    /\ arrival = <<>>
    /\ drained = {}
    /\ extracted_texts = <<>>
    /\ count = 0
    /\ stop = FALSE
    /\ summarized = {}
    /\ docfail = {}
    /\ exc = "none"
    /\ additional_informations = <<>>

\* ---------------------------------------------------------------- get_date
\* A string is a sequence; the empty string is the empty sequence.
Empty == <<>>

\* the sentinel "unknown"
Unknown == <<"unknown">>

\* The first names of update_date_names and of release_date_names, in list
\* order (the source lists go on with further names of the same kind).
update_date_names == <<"lastmod", "lastmodified">>

release_date_names == <<"date", "pubdate">>

\* A meta tag is looked up by its name attribute or its property attribute:
\* a slot is <<attribute, value of the attribute>>. In a parsed document each
\* slot is "absent" (no such tag), "noattr" (the first such tag has no
\* content attribute) or "content" (it has one, whose value is ContentOf).
Slots == {"name", "property"} \X (Range(update_date_names) \cup Range(release_date_names))

ContentOf(slot) == <<"content of", slot[1], slot[2]>>

\* the datetime attribute of the first time element, when it has one
TimeValue == <<"datetime of time">>

Soups == [meta : [Slots -> {"absent", "noattr", "content"}],
          time : {"absent", "noattr", "datetime"}]

\* soup.find("meta", {"name": name}) or soup.find("meta", {"property": name})
\* (<<>>: None)
FindMeta(sp, name) ==
    IF sp.meta[<<"name", name>>] # "absent" THEN <<"name", name>>
    ELSE IF sp.meta[<<"property", name>>] # "absent" THEN <<"property", name>>
    ELSE <<>>

\* meta_tag.get("content", "")
GetContent(sp, slot) == IF sp.meta[slot] = "content" THEN ContentOf(slot) ELSE Empty

\* time_tag.get("datetime", "")
GetDatetime(sp) == IF sp.time = "datetime" THEN TimeValue ELSE Empty

\* for name in names: if meta_tag: value = meta_tag.get("content", "")
\* (no break: every name of the list is looked up, each hit assigns)
RECURSIVE ScanNames(_, _, _)
ScanNames(sp, names, value) ==
    IF names = <<>> THEN value
    ELSE LET meta_tag == FindMeta(sp, Head(names))
         IN ScanNames(sp, Tail(names),
                      IF meta_tag # <<>> THEN GetContent(sp, meta_tag) ELSE value)

\* variant: the time element is consulted when either date is missing
FallbackAppliesEither(release_date, modified_date) ==
    release_date = Unknown \/ modified_date = Unknown

\* if release_date == "unknown" and modified_date == "unknown"
FallbackApplies(release_date, modified_date) ==
    release_date = Unknown /\ modified_date = Unknown

\* get_date(soup): f"Release date {release_date}, Modified date {modified_date}"
GetDate(sp) ==
    LET modified_date == ScanNames(sp, update_date_names, Unknown)
        from_meta == ScanNames(sp, release_date_names, Unknown)
        release_date ==
            IF FallbackApplies(from_meta, modified_date) /\ sp.time # "absent"
            THEN GetDatetime(sp)
            ELSE from_meta
    IN <<"Release date ", release_date, ", Modified date ", modified_date>>

\* ------------------------------------------------------ get_website_summary
\* whitespace characters of the alphabet: space and tab
Whitespace == {" ", "\t"}

\* the pieces of str between the characters of seps (empty pieces included)
RECURSIVE SplitOn(_, _)
SplitOn(str, seps) ==
    IF \A j \in DOMAIN str : str[j] \notin seps THEN <<str>>
    ELSE LET j == CHOOSE x \in DOMAIN str :
                      str[x] \in seps /\ \A y \in 1..(x - 1) : str[y] \notin seps
         IN <<SubSeq(str, 1, j - 1)>> \o SplitOn(SubSeq(str, j + 1, Len(str)), seps)

NonEmpty(str) == str # Empty

\* str.split(): the whitespace-delimited tokens
Split(str) == SelectSeq(SplitOn(str, Whitespace), NonEmpty)

\* str.split(' ')
SplitOnSpace(str) == SplitOn(str, {" "})

\* ' '.join(strs)
RECURSIVE JoinSpace(_)
JoinSpace(strs) ==
    IF strs = <<>> THEN Empty
    ELSE IF Len(strs) = 1 THEN strs[1]
    ELSE strs[1] \o <<" ">> \o JoinSpace(Tail(strs))

\* s[:n]
Take(s, n) == SubSeq(s, 1, Min(n, Len(s)))

\* entity in sentence (substring)
Contains(sub, str) ==
    \E off \in 0..(Len(str) - Len(sub)) : SubSeq(str, off + 1, off + Len(sub)) = sub

\* len(sent.text.split()) >= 5
HasMinTokens(st) == Len(Split(st.text)) >= min_tokens

\* cosine similarity of the sentence, plus 0.05 when an entity occurs in it
Similarity(st, ents) ==
    st.sim + (IF \E e \in ents : Contains(e, st.text) THEN boost ELSE 0)

\* sorted(zip(sentences, similarities), key=lambda x: x[1], reverse=True):
\* descending, pairs of equal similarity in their original order
RECURSIVE SortedDesc(_)
SortedDesc(pairs) ==
    IF pairs = <<>> THEN <<>>
    ELSE LET front == SortedDesc(SubSeq(pairs, 1, Len(pairs) - 1))
             x == pairs[Len(pairs)]
             n == Cardinality({j \in DOMAIN front : front[j].sim >= x.sim})
         IN SubSeq(front, 1, n) \o <<x>> \o SubSeq(front, n + 1, Len(front))

\* variant: a similarity equal to the threshold passes
AboveThresholdOrEqual(pair) == pair.sim >= threshold

\* if sim > 0.7
AboveThreshold(pair) == pair.sim > threshold

\* variant: one word too many is kept
TruncateOneMore(output, max_w) ==
    LET output_words == SplitOnSpace(output)
    IN IF Len(output_words) > max_w + 1
       THEN JoinSpace(Take(output_words, max_w + 1))
       ELSE output

\* output_words = output.split(' '); if len(output_words) > max_words:
\* output = ' '.join(output_words[:max_words])
Truncate(output, max_w) ==
    LET output_words == SplitOnSpace(output)
    IN IF Len(output_words) > max_w
       THEN JoinSpace(Take(output_words, max_w))
       ELSE output

\* get_website_summary(text, prompt, model, tokenizer, nlp, max_words).
\* text is given as nlp sees it: the sequence doc.sents of its sentences,
\* each with the cosine similarity the encoder gives it against the prompt
\* (in hundredths); ents is doc.ents.
GetWebsiteSummary(text, prompt, ents, max_w) ==
    IF prompt = Empty \/ text = <<>> THEN Empty
    ELSE LET sentences == Take(SelectSeq(text, HasMinTokens), sentence_cap)
             pairs == [j \in DOMAIN sentences |->
                          [sent |-> sentences[j].text,
                           sim |-> Similarity(sentences[j], ents)]]
             relevant_sentences == SelectSeq(SortedDesc(pairs), AboveThreshold)
             chosen == Take(relevant_sentences, top_sentences)
             output == JoinSpace([j \in DOMAIN chosen |-> chosen[j].sent])
         IN Truncate(output, max_w)

\* the sentences a document text is made of: five words separated by
\* spaces, five words separated by tabs, two words
SentenceTexts ==
    { <<"a", " ", "a", " ", "a", " ", "a", " ", "a">>,
      <<"b", "\t", "b", "\t", "b", "\t", "b", "\t", "b">>,
      <<"c", " ", "c">> }

\* similarities the encoder may give, in hundredths
Similarities == {65, 75, 80}

\* the documents: at most MaxSents sentences and the entities, under a
\* prompt; at most one sentence under an empty prompt
Pages ==
    [prompt : {<<"q">>},
     text : UNION {[1..n -> [text : SentenceTexts, sim : Similarities]] : n \in 0..MaxSents},
     ents : SUBSET {<<"a">>}]
    \cup
    [prompt : {Empty},
     text : UNION {[1..n -> [text : SentenceTexts, sim : Similarities]] : n \in 0..1},
     ents : {{}}]

\* a page without text
BlankPage == [prompt |-> <<"q">>, text |-> <<>>, ents |-> {}]

\* markup without any date signal
NoSignals == [meta |-> [s \in Slots |-> "absent"], time |-> "absent"]

\* the markup of the documents that have a text: a release date only
SampleSoups == {[NoSignals EXCEPT !.meta[<<"name", "date">>] = "content"]}

\* no document is inside extract_text
InitDoc ==
    /\ soup = NoSignals
    /\ page = BlankPage
    /\ date = Empty
    /\ text_summary = Empty
    /\ dpc = "idle"

InitPlanner ==
    /\ moderation = "none"
    /\ queries = <<>>
    /\ q = 0
    /\ results = <<>>
    /\ calls = [planner |-> 0, search |-> 0]

\* fetch_additional_information is entered
Init ==
    /\ pc = "moderate"
    /\ InitPlanner
    /\ urls = <<>>
    /\ fut = <<>>
    /\ status_code = <<>>
    /\ InitLoop
    /\ InitDoc

\* extract_texts is entered with a list of distinct URLs
InitExtract ==
    /\ pc = "next_batch"
    /\ InitPlanner
    /\ \E n \in 0..MaxUrls : urls = [k \in 1..n |-> <<k, ".htm">>]
    /\ fut = [k \in 1..Len(urls) |-> "unsubmitted"]
    /\ status_code = [k \in 1..Len(urls) |-> 0]
    /\ InitLoop
    /\ InitDoc

\* ------------------------------------------- fetch_additional_information
\* variant: the verdict is not acted upon
ModerateIgnored ==
    /\ pc = "moderate"
    /\ \E flagged \in BOOLEAN :
         moderation' = IF flagged THEN "flagged" ELSE "passed"
    /\ pc' = "plan"
    /\ UNCHANGED <<queries, q, results, calls, urls, i, batch, poolVars, loopVars,
                   exc, additional_informations, docVars>>

\* openai.Moderation.create on the planning prompt; return "" when flagged
Moderate ==
    /\ pc = "moderate"
    /\ \E flagged \in BOOLEAN :
         /\ moderation' = IF flagged THEN "flagged" ELSE "passed"
         /\ pc' = IF flagged THEN "done" ELSE "plan"
    /\ UNCHANGED <<queries, q, results, calls, urls, i, batch, poolVars, loopVars,
                   exc, additional_informations, docVars>>

Plan ==
    /\ pc = "plan"
    /\ \E n \in 0..MaxQueries : queries' = [j \in 1..n |-> j]
    /\ calls' = [calls EXCEPT !.planner = @ + 1]
    /\ pc' = "search"
    /\ UNCHANGED <<moderation, q, results, urls, i, batch, poolVars, loopVars,
                   exc, additional_informations, docVars>>

\* one iteration of the loop over queries: search_google returns its links
SearchReturns ==
    /\ pc = "search"
    /\ q < Len(queries)
    /\ \E hits \in Hits : results' = results \o hits
    /\ q' = q + 1
    /\ calls' = [calls EXCEPT !.search = @ + 1]
    /\ UNCHANGED <<pc, moderation, queries, urls, i, batch, poolVars, loopVars,
                   exc, additional_informations, docVars>>

\* one iteration of the loop over queries: search_google raises
SearchRaises ==
    /\ pc = "search"
    /\ q < Len(queries)
    /\ calls' = [calls EXCEPT !.search = @ + 1]
    /\ exc' = "SearchError"
    /\ pc' = "raised"
    /\ UNCHANGED <<moderation, queries, q, results, urls, i, batch, poolVars,
                   loopVars, additional_informations, docVars>>

\* end of get_urls_from_queries, entry of extract_texts
ResolveUrls ==
    /\ pc = "search"
    /\ q = Len(queries)
    /\ \E unique_results \in Orderings(Range(results)) :
         urls' = SelectSeq(unique_results, NotPdf)
    /\ fut' = [k \in 1..Len(urls') |-> "unsubmitted"]
    /\ status_code' = [k \in 1..Len(urls') |-> 0]
    /\ results' = <<>>
    /\ pc' = "next_batch"
    /\ UNCHANGED <<moderation, queries, q, calls, i, batch, arrival, loopVars, exc,
                   additional_informations, docVars>>

Join ==
    /\ pc = "returned"
    /\ additional_informations' = JoinBlocks(extracted_texts)
    /\ pc' = "done"
    /\ UNCHANGED <<plannerVars, urls, i, batch, poolVars, loopVars, exc, docVars>>

\* ----------------------------------------------------- process_in_batches
\* variant: the range advances by one instead of window
SubmitBatchStepOne ==
    /\ pc = "next_batch"
    /\ i < Len(urls)
    /\ batch' = (i + 1)..Min(i + window, Len(urls))
    /\ fut' = [k \in DOMAIN fut |-> IF k \in batch' THEN "pending" ELSE fut[k]]
    /\ arrival' = <<>>
    /\ i' = i + 1
    /\ pc' = "drain"
    /\ UNCHANGED <<plannerVars, urls, status_code, loopVars, exc,
                   additional_informations, docVars>>

\* the generator is resumed and submits the next window to the pool
SubmitBatch ==
    /\ pc = "next_batch"
    /\ i < Len(urls)
    /\ batch' = (i + 1)..Min(i + window, Len(urls))
    /\ fut' = [k \in DOMAIN fut |-> IF k \in batch' THEN "pending" ELSE fut[k]]
    /\ arrival' = <<>>
    /\ i' = i + window
    /\ pc' = "drain"
    /\ UNCHANGED <<plannerVars, urls, status_code, loopVars, exc,
                   additional_informations, docVars>>

\* the generator is resumed with the range exhausted
BatchesExhausted ==
    /\ pc = "next_batch"
    /\ i >= Len(urls)
    /\ pc' = "release"
    /\ UNCHANGED <<plannerVars, urls, i, batch, poolVars, loopVars, exc,
                   additional_informations, docVars>>

\* the generator leaves its with block: the pool is shut down, then
\* extract_texts returns
ShutdownPool ==
    /\ pc = "release"
    /\ PoolQuiescent
    /\ pc' = "returned"
    /\ UNCHANGED <<plannerVars, urls, i, batch, poolVars, loopVars, exc,
                   additional_informations, docVars>>

\* ------------------------------------------------ workers (requests.get)
\* variant: the worker appends the snippet itself (a done-callback)
WorkerRespondsAndAppends ==
    \E k \in DOMAIN fut, s \in StatusCodes :
        /\ fut[k] = "pending"
        /\ fut' = [fut EXCEPT ![k] = "response"]
        /\ status_code' = [status_code EXCEPT ![k] = s]
        /\ arrival' = Append(arrival, k)
        /\ IF s = 200 /\ count < max_allowed
           THEN /\ extracted_texts' = Append(extracted_texts, urls[k])
                /\ count' = count + 1
                /\ summarized' = summarized \cup {k}
                /\ drained' = drained \cup {k}
           ELSE UNCHANGED <<extracted_texts, count, summarized, drained>>
        /\ UNCHANGED <<pc, plannerVars, urls, i, batch, stop, docfail, exc,
                       additional_informations, docVars>>

\* requests.get returns a response in a worker thread
WorkerResponds ==
    \E k \in DOMAIN fut, s \in StatusCodes :
        /\ fut[k] = "pending"
        /\ fut' = [fut EXCEPT ![k] = "response"]
        /\ status_code' = [status_code EXCEPT ![k] = s]
        /\ arrival' = Append(arrival, k)
        /\ UNCHANGED <<pc, plannerVars, urls, i, batch, loopVars, exc,
                       additional_informations, docVars>>

WorkerTimesOut ==
    \E k \in DOMAIN fut :
        /\ fut[k] = "pending"
        /\ fut' = [fut EXCEPT ![k] = "ReadTimeout"]
        /\ arrival' = Append(arrival, k)
        /\ UNCHANGED <<pc, plannerVars, urls, i, batch, status_code, loopVars, exc,
                       additional_informations, docVars>>

WorkerFails ==
    \E k \in DOMAIN fut :
        /\ fut[k] = "pending"
        /\ fut' = [fut EXCEPT ![k] = "ConnectionError"]
        /\ arrival' = Append(arrival, k)
        /\ UNCHANGED <<pc, plannerVars, urls, i, batch, status_code, loopVars, exc,
                       additional_informations, docVars>>

\* ----------------------------------------------------------- extract_texts
\* an exception raised inside the try block of the inner loop
Raise(k, e) ==
    IF Caught(e)
    THEN /\ drained' = drained \cup {k}
         /\ UNCHANGED <<pc, exc>>
    ELSE /\ exc' = e
         /\ pc' = "raised"
         /\ UNCHANGED drained

\* future.result() raises ReadTimeout
ResultReadTimeout ==
    \E k \in batch :
        /\ pc = "drain"
        /\ Awaitable(k)
        /\ fut[k] = "ReadTimeout"
        /\ Raise(k, "ReadTimeout")
        /\ UNCHANGED <<plannerVars, urls, i, batch, poolVars, extracted_texts, count,
                       stop, summarized, docfail, additional_informations, docVars>>

\* future.result() raises another exception
ResultException ==
    \E k \in batch :
        /\ pc = "drain"
        /\ Awaitable(k)
        /\ fut[k] = "ConnectionError"
        /\ Raise(k, "ConnectionError")
        /\ UNCHANGED <<plannerVars, urls, i, batch, poolVars, extracted_texts, count,
                       stop, summarized, docfail, additional_informations, docVars>>

\* variant: break instead of continue
ResultNotOKBreaks ==
    \E k \in batch :
        /\ pc = "drain"
        /\ Awaitable(k)
        /\ fut[k] = "response"
        /\ ~StatusOK(status_code[k])
        /\ drained' = drained \cup {k}
        /\ pc' = "after_batch"
        /\ UNCHANGED <<plannerVars, urls, i, batch, poolVars, extracted_texts,
                       count, stop, summarized, docfail, exc, additional_informations, docVars>>

\* the response is not accepted: continue
ResultNotOK ==
    \E k \in batch :
        /\ pc = "drain"
        /\ Awaitable(k)
        /\ fut[k] = "response"
        /\ ~StatusOK(status_code[k])
        /\ drained' = drained \cup {k}
        /\ UNCHANGED <<pc, plannerVars, urls, i, batch, poolVars, extracted_texts,
                       count, stop, summarized, docfail, exc, additional_informations, docVars>>

\* variant: the try block encloses the inner loop
SummarizeRaisesLeavesLoop ==
    \E k \in batch :
        /\ pc = "drain"
        /\ Awaitable(k)
        /\ fut[k] = "response"
        /\ StatusOK(status_code[k])
        /\ summarized' = summarized \cup {k}
        /\ docfail' = docfail \cup {k}
        /\ drained' = drained \cup {k}
        /\ pc' = "after_batch"
        /\ UNCHANGED <<plannerVars, urls, i, batch, poolVars, extracted_texts, count,
                       stop, exc, additional_informations, docVars>>

\* extract_text raises while parsing or encoding the document
SummarizeRaises ==
    \E k \in batch :
        /\ pc = "drain"
        /\ Awaitable(k)
        /\ fut[k] = "response"
        /\ StatusOK(status_code[k])
        /\ summarized' = summarized \cup {k}
        /\ docfail' = docfail \cup {k}
        /\ Raise(k, "DocumentError")
        /\ UNCHANGED <<plannerVars, urls, i, batch, poolVars, extracted_texts, count,
                       stop, additional_informations, docVars>>

\* variant: the snippet is appended without being counted
SummarizeAppendsUncounted ==
    \E k \in batch :
        /\ pc = "drain"
        /\ Awaitable(k)
        /\ fut[k] = "response"
        /\ StatusOK(status_code[k])
        /\ summarized' = summarized \cup {k}
        /\ extracted_texts' = Append(extracted_texts, urls[k])
        /\ drained' = drained \cup {k}
        /\ UNCHANGED <<plannerVars, urls, i, batch, poolVars, docfail, exc, count,
                       stop, pc, additional_informations, docVars>>

\* extract_text returns: the snippet is appended and counted
SummarizeAppends ==
    \E k \in batch :
        /\ pc = "drain"
        /\ Awaitable(k)
        /\ fut[k] = "response"
        /\ StatusOK(status_code[k])
        /\ summarized' = summarized \cup {k}
        /\ extracted_texts' = Append(extracted_texts, urls[k])
        /\ count' = count + 1
        /\ drained' = drained \cup {k}
        /\ IF CapReached(count')
           THEN stop' = TRUE /\ pc' = "after_batch"
           ELSE UNCHANGED <<stop, pc>>
        /\ UNCHANGED <<plannerVars, urls, i, batch, poolVars, docfail, exc,
                       additional_informations, docVars>>

\* the inner loop has consumed every future of the window
BatchDrained ==
    /\ pc = "drain"
    /\ batch \subseteq drained
    /\ pc' = "after_batch"
    /\ UNCHANGED <<plannerVars, urls, i, batch, poolVars, loopVars, exc,
                   additional_informations, docVars>>

\* variant: the outer loop never breaks
OuterCheckNoBreak ==
    /\ pc = "after_batch"
    /\ pc' = "next_batch"
    /\ UNCHANGED <<plannerVars, urls, i, batch, poolVars, loopVars, exc,
                   additional_informations, docVars>>

\* if stop: break
OuterCheck ==
    /\ pc = "after_batch"
    /\ pc' = IF stop THEN "release" ELSE "next_batch"
    /\ UNCHANGED <<plannerVars, urls, i, batch, poolVars, loopVars, exc,
                   additional_informations, docVars>>

\* -------------------------------------------------------------- extract_text
\* date = get_date(soup)
DateDocument ==
    /\ dpc = "parsed"
    /\ date' = GetDate(soup)
    /\ dpc' = "dated"
    /\ UNCHANGED <<pc, plannerVars, urls, i, batch, poolVars, loopVars, exc,
                   additional_informations, soup, page, text_summary>>

\* text_summary = get_website_summary(text, prompt, model, tokenizer, nlp)
SummarizeDocument ==
    /\ dpc = "dated"
    /\ text_summary' = GetWebsiteSummary(page.text, page.prompt, page.ents, max_words)
    /\ dpc' = "summarized"
    /\ UNCHANGED <<pc, plannerVars, urls, i, batch, poolVars, loopVars, exc,
                   additional_informations, soup, page, date>>

\* f"{url}\n{extracted_text}" with extracted_text = f"{date}:\n{text_summary}"
Snippet(url, dt, summary) == <<url, "\n">> \o dt \o <<":\n", summary>>

\* variant: a document without summary is not appended
AppendSnippetUnlessEmpty ==
    /\ dpc = "summarized"
    /\ pc = "drain"
    /\ \E k \in batch :
         /\ Awaitable(k)
         /\ fut[k] = "response"
         /\ StatusOK(status_code[k])
         /\ summarized' = summarized \cup {k}
         /\ drained' = drained \cup {k}
         /\ IF text_summary = Empty
            THEN UNCHANGED <<extracted_texts, count, stop, pc>>
            ELSE /\ extracted_texts' =
                      Append(extracted_texts, Snippet(urls[k], date, text_summary))
                 /\ count' = count + 1
                 /\ IF CapReached(count')
                    THEN stop' = TRUE /\ pc' = "after_batch"
                    ELSE UNCHANGED <<stop, pc>>
    /\ dpc' = "appended"
    /\ UNCHANGED <<plannerVars, urls, i, batch, poolVars, docfail, exc,
                   additional_informations, soup, page, date, text_summary>>

\* extract_text returns; extract_texts appends the snippet and counts it
AppendSnippet ==
    /\ dpc = "summarized"
    /\ pc = "drain"
    /\ \E k \in batch :
         /\ Awaitable(k)
         /\ fut[k] = "response"
         /\ StatusOK(status_code[k])
         /\ summarized' = summarized \cup {k}
         /\ drained' = drained \cup {k}
         /\ extracted_texts' =
              Append(extracted_texts, Snippet(urls[k], date, text_summary))
         /\ count' = count + 1
         /\ IF CapReached(count')
            THEN stop' = TRUE /\ pc' = "after_batch"
            ELSE UNCHANGED <<stop, pc>>
    /\ dpc' = "appended"
    /\ UNCHANGED <<plannerVars, urls, i, batch, poolVars, docfail, exc,
                   additional_informations, soup, page, date, text_summary>>

\* extract_texts has the 200 response of its only URL in hand and calls
\* extract_text on it: any markup with a blank page, or any page with the
\* sample markups
InitDocument ==
    /\ pc = "drain"
    /\ InitPlanner
    /\ urls = <<<<1, ".htm">>>>
    /\ fut = <<"response">>
    /\ status_code = <<200>>
    /\ i = window
    /\ batch = {1}
    /\ arrival = <<1>>
    /\ drained = {}
    /\ extracted_texts = <<>>
    /\ count = 0
    /\ stop = FALSE
    /\ summarized = {}
    /\ docfail = {}
    /\ exc = "none"
    /\ additional_informations = <<>>
    /\ \/ soup \in Soups /\ page = BlankPage
       \/ soup \in SampleSoups /\ page \in Pages
    /\ date = Empty
    /\ text_summary = Empty
    /\ dpc = "parsed"

NextDocument ==
    \/ DateDocument
    \/ SummarizeDocument
    \/ AppendSnippet

\* extract_text on one fetched document, and the append that follows
SpecDoc == InitDocument /\ [][NextDocument]_vars

\* ----------------------------------------------------------- specifications
NextExtract ==
    \/ SubmitBatch
    \/ BatchesExhausted
    \/ ShutdownPool
    \/ WorkerResponds
    \/ WorkerTimesOut
    \/ WorkerFails
    \/ ResultReadTimeout
    \/ ResultException
    \/ ResultNotOK
    \/ SummarizeRaises
    \/ SummarizeAppends
    \/ BatchDrained
    \/ OuterCheck

Next ==
    \/ Moderate
    \/ Plan
    \/ SearchReturns
    \/ SearchRaises
    \/ ResolveUrls
    \/ Join
    \/ NextExtract

\* the whole of fetch_additional_information
Spec == Init /\ [][Next]_vars

\* extract_texts alone, on any list of at most MaxUrls distinct URLs
SpecExtract == InitExtract /\ [][NextExtract]_vars

\* the steps of the aggregating thread inside extract_texts
Aggregator ==
    \/ SubmitBatch
    \/ BatchesExhausted
    \/ ShutdownPool
    \/ ResultReadTimeout
    \/ ResultException
    \/ ResultNotOK
    \/ SummarizeRaises
    \/ SummarizeAppends
    \/ BatchDrained
    \/ OuterCheck

\* the steps of the pool's worker threads
Workers == WorkerResponds \/ WorkerTimesOut \/ WorkerFails

\* extract_texts when the aggregating thread keeps running and every
\* submitted request resolves (requests.get returns or raises within its
\* timeout)
FairExtract ==
    /\ InitExtract
    /\ [][NextExtract]_vars
    /\ WF_vars(Aggregator)
    /\ WF_vars(Workers)

\* ------------------------------------------------------------- properties
Pending == {k \in DOMAIN fut : fut[k] = "pending"}

Submitted == {k \in DOMAIN fut : fut[k] # "unsubmitted"}

Resolved == {k \in DOMAIN fut : fut[k] \in {"response", "ReadTimeout", "ConnectionError"}}

\* positions whose snippet was appended
Accepted == summarized \ docfail

\* the elements of s at the positions of K, in increasing position
RECURSIVE Pick(_, _)
Pick(s, K) ==
    IF s = <<>> THEN <<>>
    ELSE Pick(SubSeq(s, 1, Len(s) - 1), K)
         \o (IF Len(s) \in K THEN <<s[Len(s)]>> ELSE <<>>)

\* the response of k arrived with status 200 and its document was summarized
\* without error
Succeeded(k) == fut[k] = "response" /\ status_code[k] = 200 /\ k \notin docfail

\* the fetch of k failed: timeout, transport error or non-success status
FetchFailed(k) ==
    \/ fut[k] \in {"ReadTimeout", "ConnectionError"}
    \/ fut[k] = "response" /\ status_code[k] \notin 200..299

\* number of snippets of the digest that come from the positions of K
SnippetsFrom(K) ==
    Cardinality({j \in 1..Len(extracted_texts) :
                    \E k \in K : extracted_texts[j] = urls[k]})

\* C1: the digest never holds more snippets than the cap max_allowed.
C1_CapInvariant == Len(extracted_texts) <= max_allowed

\* the cap is reached while a successful response of the window is unconsumed
C1_Witness ==
    /\ Len(extracted_texts) = max_allowed
    /\ \E k \in batch \ drained : fut[k] = "response" /\ status_code[k] = 200

\* C2: when a window has been drained without reaching the cap and each of its
\* URLs either succeeded or failed to fetch (timeout, transport error,
\* non-success status), the digest holds exactly one snippet per succeeded URL
\* of the window and none of a failed one; and no exception leaves
\* extract_texts.
C2_FetchFailuresIsolated ==
    /\ pc # "raised"
    /\ exc = "none"
    /\ (pc = "after_batch" /\ ~stop /\ \A k \in batch : Succeeded(k) \/ FetchFailed(k))
         => /\ SnippetsFrom(batch) = Cardinality({k \in batch : Succeeded(k)})
            /\ \A k \in batch : FetchFailed(k) => urls[k] \notin Range(extracted_texts)

\* a drained window with a timeout, a transport error or rejected status, and
\* a success
C2_Witness ==
    /\ pc = "after_batch"
    /\ ~stop
    /\ \A k \in batch : Succeeded(k) \/ FetchFailed(k)
    /\ \E a, b \in batch : fut[a] = "ReadTimeout" /\ Succeeded(b)

\* C3: a search_google call that raises does not abort the run.
C3_SearchErrorIsolated == exc # "SearchError" /\ pc # "raised"

\* C4: when moderation flags the planning prompt the run ends with an empty
\* digest, without any call to the planning model or the search provider and
\* without any GET submitted.
C4_ModerationSuppresses ==
    moderation = "flagged" =>
        /\ pc = "done"
        /\ additional_informations = <<>>
        /\ calls.planner = 0
        /\ calls.search = 0
        /\ Submitted = {}
        /\ urls = <<>>

C4_Witness == moderation = "flagged" /\ pc = "done"

\* C5: all unresolved requests belong to the window being drained, and there
\* are at most window of them: no request of a later window is submitted
\* while one of an earlier window is unresolved.
C5_WindowBarrier ==
    /\ Pending \subseteq batch
    /\ Cardinality(batch) <= window
    /\ Submitted \ batch \subseteq Resolved

\* a later window is in flight after the first one resolved
C5_Witness == i > window /\ Pending # {} /\ Cardinality(Resolved) >= window

\* C6: the digest is the subsequence of urls made of the accepted URLs, in
\* the order of the list, whatever the order of completion.
C6_SubmissionOrder == extracted_texts = Pick(urls, Accepted)

\* two URLs of one window accepted although the later one completed first
C6_Witness ==
    /\ Len(arrival) >= 2
    /\ arrival[1] > arrival[2]
    /\ {arrival[1], arrival[2]} \subseteq Accepted

\* C7 (as stated): once the cap is reached the aggregator gets to Done
\* without waiting for the pending tasks, pool shutdown included.
C7_DoneWithoutWaiting == (pc = "release" /\ stop) => ENABLED ShutdownPool

\* C7 (amended): extract_texts has returned only when every submitted task
\* is resolved, the ones the loop left unconsumed at the cap included: the
\* pool shutdown that runs when the batch generator is released waits for
\* them.
C7_ReturnsAfterPoolJoin == pc \in {"returned", "done"} => Submitted = Resolved

\* extract_texts has returned after the cap; a task the loop never consumed
\* had been submitted
C7_Witness ==
    /\ pc = "returned"
    /\ stop
    /\ \E k \in batch \ drained : k \in Resolved

\* C8: once the counter has reached the cap, no GET is submitted, no document
\* is summarized and nothing is appended to the digest.
C8_NothingAfterCap ==
    [][count >= max_allowed =>
         /\ \A k \in DOMAIN fut : fut[k] = "unsubmitted" => fut'[k] = "unsubmitted"
         /\ summarized' = summarized
         /\ extracted_texts' = extracted_texts
         /\ count' = count]_vars

\* extract_texts has returned after the cap with URLs never scheduled
C8_Witness ==
    /\ pc = "returned"
    /\ count >= max_allowed
    /\ \E k \in DOMAIN fut : fut[k] = "unsubmitted"

\* C9: a summarization that raises leaves the digest and the counter as they
\* were and the loop in the same window; no exception leaves extract_texts;
\* and unless the cap stops the run every URL of the list is processed.
C9_DocumentErrorSkipped ==
    /\ [](pc # "raised" /\ exc = "none")
    /\ []((pc = "returned" /\ ~stop) => drained = DOMAIN fut)
    /\ [][docfail' # docfail =>
            /\ extracted_texts' = extracted_texts
            /\ count' = count
            /\ pc' = "drain"]_vars

\* a document failed and a later URL was accepted
C9_Witness ==
    /\ pc = "returned"
    /\ \E k \in docfail : \E j \in Accepted : j > k

\* C10 (as stated): a consumed task was summarized exactly when its response
\* carried a 2xx status.
C10_Accepts2xx ==
    \A k \in drained :
        k \in summarized <=> (fut[k] = "response" /\ status_code[k] \in 200..299)

\* C10 (amended): a consumed task was summarized exactly when its response
\* carried status 200, and its snippet is in the digest exactly when moreover
\* the summarization did not raise; every other response left no snippet and
\* raised nothing.
C10_Accepts200 ==
    /\ pc # "raised"
    /\ count = Len(extracted_texts)
    /\ \A k \in drained :
        /\ k \in summarized <=> (fut[k] = "response" /\ status_code[k] = 200)
        /\ urls[k] \in Range(extracted_texts)
             <=> (fut[k] = "response" /\ status_code[k] = 200 /\ k \notin docfail)

\* a 204 response was discarded and a 200 response accepted
C10_Witness ==
    \E a, b \in drained :
        /\ fut[a] = "response" /\ status_code[a] = 204
        /\ fut[b] = "response" /\ status_code[b] = 200
        /\ urls[b] \in Range(extracted_texts)

\* position of a URL in urls (the URLs of a list are distinct)
PosOf(u) == CHOOSE k \in DOMAIN urls : urls[k] = u

\* rank of position k in the completion order of the current window
ArrivalRank(k) == CHOOSE j \in DOMAIN arrival : arrival[j] = k

\* C11: URL resolution returns the distinct URLs of the search results that
\* do not end in ".pdf" (case-sensitive), each once, and drops no other URL.
C11_ResolvedUrls ==
    [][(pc = "search" /\ pc' = "next_batch") =>
         /\ Range(urls') = {u \in Range(results) : u[Len(u)] # ".pdf"}
         /\ \A a, b \in DOMAIN urls' : a # b => urls'[a] # urls'[b]]_vars

\* one search resolved to two URLs, the ".PDF" one among them
C11_Witness ==
    /\ pc = "next_batch"
    /\ calls.search = 1
    /\ Len(urls) = 2
    /\ \E a \in DOMAIN urls : urls[a][2] = ".PDF"

\* C16 (as stated): the snippets of a window are in the digest in the order
\* in which the window's fetch tasks completed.
C16_CompletionOrder ==
    \A a, b \in DOMAIN extracted_texts :
        (a < b /\ {PosOf(extracted_texts[a]), PosOf(extracted_texts[b])} \subseteq batch)
            => ArrivalRank(PosOf(extracted_texts[a])) < ArrivalRank(PosOf(extracted_texts[b]))

\* C16 (amended): the snippets are in the digest in the order of the URL
\* list, whatever the completion order.
C16_ListOrder ==
    \A a, b \in DOMAIN extracted_texts :
        a < b => PosOf(extracted_texts[a]) < PosOf(extracted_texts[b])

\* a window whose two snippets are in the digest although its second task
\* completed first
C16_Witness ==
    /\ pc = "after_batch"
    /\ Len(extracted_texts) >= 2
    /\ \E a, b \in batch :
         /\ a < b
         /\ {urls[a], urls[b]} \subseteq Range(extracted_texts)
         /\ ArrivalRank(b) < ArrivalRank(a)

\* C19: a step summarizes at most one document, and only one whose response
\* has arrived, taken by the aggregating thread in its inner loop; a step of a
\* worker (a future resolving) changes neither the counter nor the digest nor
\* the loop's other variables.
C19_OnlyFetchConcurrent ==
    [][/\ Cardinality(summarized' \ summarized) <= 1
       /\ \A k \in summarized' \ summarized : pc = "drain" /\ fut[k] = "response"
       /\ (\E k \in DOMAIN fut : fut[k] = "pending" /\ fut'[k] # "pending")
            => /\ count' = count
               /\ extracted_texts' = extracted_texts
               /\ stop' = stop
               /\ drained' = drained
               /\ summarized' = summarized
       /\ (count' # count \/ extracted_texts' # extracted_texts)
            => pc = "drain" /\ fut' = fut]_vars

\* a document has been summarized while another request of its window is
\* still in flight
C19_Witness ==
    \E k \in summarized \cap batch : \E j \in batch : fut[j] = "pending"

\* C20: extract_texts terminates; it issues at most ceil(n / window) windows
\* and submits each URL at most once; on an empty list it returns an empty
\* digest without any GET.
C20_Terminates ==
    /\ <>(pc = "returned")
    /\ [](i < Len(urls) + window /\ i % window = 0)
    /\ []((pc = "returned" /\ urls = <<>>) => (extracted_texts = <<>> /\ i = 0))
    /\ [][\A k \in DOMAIN fut :
            (fut'[k] = "pending" /\ fut[k] # "pending") => fut[k] = "unsubmitted"]_vars

\* extract_texts has returned after issuing ceil(n / window) windows, the
\* last one shorter than window
C20_Witness ==
    /\ pc = "returned"
    /\ Len(urls) % window # 0
    /\ i = Len(urls) + window - (Len(urls) % window)
    /\ Submitted = DOMAIN fut

\* ------------------------------------------------- properties of extract_text
\* extract_text has computed the date annotation
Dated == dpc \in {"dated", "summarized", "appended"}

\* extract_text has computed the summary
Summarized == dpc \in {"summarized", "appended"}

\* some name of the list matches a meta tag of the document
MetaFound(sp, names) == \E j \in DOMAIN names : FindMeta(sp, names[j]) # <<>>

\* the first name of the list, in list order, that matches a meta tag
FirstMatch(sp, names) ==
    names[CHOOSE j \in DOMAIN names :
              /\ FindMeta(sp, names[j]) # <<>>
              /\ \A h \in 1..(j - 1) : FindMeta(sp, names[h]) = <<>>]

\* C12: the date annotation is "Release date X, Modified date Y" with X and Y
\* never empty: an extracted non-empty string or "unknown".
C12_DateWellFormed ==
    Dated =>
        /\ Len(date) = 4
        /\ date[1] = "Release date " /\ date[3] = ", Modified date "
        /\ date[2] # Empty
        /\ date[4] # Empty

C18_TimeFallback ==
    Dated =>
        LET rel == MetaFound(soup, release_date_names)
            mod == MetaFound(soup, update_date_names)
        IN /\ (~rel /\ ~mod /\ soup.time # "absent")
                => (date[2] = GetDatetime(soup) /\ date[4] = Unknown)
           /\ (~rel /\ mod) => date[2] = Unknown
           /\ rel => \E n \in Range(release_date_names) :
                        /\ FindMeta(soup, n) # <<>>
                        /\ date[2] = GetContent(soup, FindMeta(soup, n))
           /\ (~rel /\ ~mod /\ soup.time = "absent")
                => (date[2] = Unknown /\ date[4] = Unknown)

\* no meta tag matched and the time element gave the release date
C18_Witness ==
    /\ Dated
    /\ ~MetaFound(soup, release_date_names)
    /\ ~MetaFound(soup, update_date_names)
    /\ soup.time = "datetime"
    /\ date[2] = TimeValue

IsPrefix(a, b) == Len(a) <= Len(b) /\ SubSeq(b, 1, Len(a)) = a

\* C14 (as stated): the summary has at most max_words whitespace-delimited
\* tokens.
C14_WordLimit == Summarized => Len(Split(text_summary)) <= max_words

\* C14 (amended): the summary is cut from the space-join of at most
\* top_sentences sentences of the text and has at most max_words pieces
\* delimited by single spaces.
C14_PieceLimit ==
    Summarized =>
        /\ Len(SplitOnSpace(text_summary)) <= max_words
        /\ \E n \in 0..top_sentences : \E sel \in [1..n -> Range(page.text)] :
              IsPrefix(text_summary, JoinSpace([j \in 1..n |-> sel[j].text]))

\* the joined sentences were longer than max_words and have been cut
C14_Witness ==
    /\ Summarized
    /\ Len(SplitOnSpace(text_summary)) = max_words

\* the candidate sentences of the page, and their scores
Candidates == Take(SelectSeq(page.text, HasMinTokens), sentence_cap)

Score(j) ==
    Candidates[j].sim
    + (IF \E e \in page.ents : Contains(e, Candidates[j].text) THEN boost ELSE 0)

Above == {j \in DOMAIN Candidates : Score(j) > threshold}

\* C15: a document with an empty text, or without any sentence scoring above
\* the threshold, has an empty summary, and its snippet, made of the URL and
\* the date annotation only, is appended to the digest and counted.
C15_EmptySummarySnippet ==
    (dpc = "appended" /\ (page.text = <<>> \/ Above = {})) =>
        /\ text_summary = Empty
        /\ exc = "none"
        /\ count = 1
        /\ extracted_texts =
             << <<urls[1], "\n", "Release date ", date[2], ", Modified date ",
                  date[4], ":\n", Empty>> >>

\* a page with candidate sentences, one of them scoring exactly the
\* threshold, none above: its snippet has been appended
C15_Witness ==
    /\ dpc = "appended"
    /\ page.prompt # Empty
    /\ Above = {}
    /\ \E j \in DOMAIN Candidates : Score(j) = threshold

\* C17: with a prompt, the summary is the space-join, cut to max_words words,
\* of the top_sentences best candidates scoring strictly above the threshold,
\* in descending score, equal scores in document order.  A candidate's rank
\* is the number of candidates above the threshold placed before it: those
\* with a higher score, or the same score and earlier in the document.
C17_RankerSelection ==
    (Summarized /\ page.prompt # Empty) =>
        LET cands == Candidates
            n == Len(cands)
            score == [j \in 1..n |->
                        cands[j].sim
                        + (IF \E e \in page.ents : Contains(e, cands[j].text)
                           THEN boost ELSE 0)]
            above == {j \in 1..n : score[j] > threshold}
            rank == [j \in 1..n |->
                        Cardinality({k \in above :
                            \/ score[k] > score[j]
                            \/ score[k] = score[j] /\ k < j})]
            expected == [r \in 1..Min(top_sentences, Cardinality(above)) |->
                            cands[CHOOSE j \in above : rank[j] = r - 1].text]
        IN text_summary
             = JoinSpace(Take(SplitOnSpace(JoinSpace(expected)), max_words))

\* a candidate scores exactly the threshold, two different sentences tie above
\* it and the summary is not empty
C17_Witness ==
    /\ Summarized
    /\ text_summary # Empty
    /\ \E j \in DOMAIN Candidates : Score(j) = threshold
    /\ \E k1, k2 \in Above :
         k1 < k2 /\ Score(k1) = Score(k2) /\ Candidates[k1].text # Candidates[k2].text

\* the snippets of the digest that come from position k of the URL list
SnippetsOf(k) == {j \in 1..Len(extracted_texts) : extracted_texts[j] = urls[k]}

\* C21: between two steps of extract_texts the counter equals the number of
\* snippets of the digest; each URL of the list has at most one snippet, and
\* has one only when its response had status 200 and its summarization
\* returned without raising; no step decreases the counter.
C21_CounterMatchesDigest ==
    /\ [](/\ count = Len(extracted_texts)
          /\ \A k \in DOMAIN urls :
                /\ Cardinality(SnippetsOf(k)) <= 1
                /\ SnippetsOf(k) # {} =>
                     /\ fut[k] = "response"
                     /\ status_code[k] = 200
                     /\ k \in summarized
                     /\ k \notin docfail
          /\ \A j \in 1..Len(extracted_texts) :
                \E k \in DOMAIN urls : extracted_texts[j] = urls[k])
    /\ [][count' >= count]_vars

\* a snippet was appended and counted, after a response with another status
\* was skipped and a summarization raised
C21_Witness ==
    /\ count >= 1
    /\ count = Len(extracted_texts)
    /\ \E k \in drained : fut[k] = "response" /\ status_code[k] # 200
    /\ docfail # {}

====
